---- MODULE Spec2Model ----
(***************************************************************************)
(* Model of the railradar-api service (src/main.py): one FastAPI route,    *)
(* GET /api/train/{train_number}/station/{station_code}, that fetches a    *)
(* station listing and a train detail feed from an upstream provider with  *)
(* primary/fallback failover and reshapes them into a TrainStationResponse.*)
(*                                                                         *)
(* Python strings are sequences of one-character strings, so that upper(), *)
(* split(), the path patterns and datetime.fromisoformat() are computed    *)
(* character by character.  JSON values are tagged records; a JSON object  *)
(* is a function from its keys (TLA+ strings) to JSON values.              *)
(***************************************************************************)
EXTENDS Integers, Sequences, FiniteSets, TLC

VARIABLES
    pc,                 \* position of the request in get_train_station_info
    train_number,       \* path parameter, as received
    station_code,       \* path parameter, as received
    normalized_station, \* local of the handler (line 109)
    fetch,              \* locals of the running _fetch_json call
    gets,               \* every upstream GET issued for the request, in order
    station_payload,    \* result of the first _fetch_json call
    matched_train_id,   \* local of the handler (line 120)
    train_payload,      \* result of the second _fetch_json call
    response,           \* what the endpoint answers
    round,              \* 1: the request; 2: its replay with another letter case
    first,              \* outcome of round 1, kept for the comparison in round 2
    delay_arg,          \* argument of a call of _compute_delay_minutes
    delay_result        \* what that call returned

vars == <<pc, train_number, station_code, normalized_station, fetch, gets,
          station_payload, matched_train_id, train_payload, response, round, first,
          delay_arg, delay_result>>

-----------------------------------------------------------------------------
(* Python strings *)

LowerLetters == <<"a","b","c","d","e","f","g","h","i","j","k","l","m",
                  "n","o","p","q","r","s","t","u","v","w","x","y","z">>
UpperLetters == <<"A","B","C","D","E","F","G","H","I","J","K","L","M",
                  "N","O","P","Q","R","S","T","U","V","W","X","Y","Z">>
Digits == <<"0","1","2","3","4","5","6","7","8","9">>

Range(s) == {s[i] : i \in DOMAIN s}
IsDigit(c) == c \in Range(Digits)
IsLetter(c) == c \in Range(LowerLetters) \cup Range(UpperLetters)
DigitVal(c) == (CHOOSE i \in DOMAIN Digits : Digits[i] = c) - 1

\* str.upper() on one character
UpperChar(c) ==
    IF c \in Range(LowerLetters)
    THEN UpperLetters[CHOOSE i \in DOMAIN LowerLetters : LowerLetters[i] = c]
    ELSE c

\* the text of a character sequence, as a TLA+ string (a dictionary key)
RECURSIVE Text(_)
Text(s) == IF s = <<>> THEN "" ELSE Head(s) \o Text(Tail(s))

\* s.split("-", maxsplit=1)[0]
FirstSegment(s) ==
    LET seps == {i \in DOMAIN s : s[i] = "-"}
    IN  IF seps = {} THEN s
        ELSE SubSeq(s, 1, (CHOOSE i \in seps : \A j \in seps : i <= j) - 1)

\* the decimal number written in s[i..j]
RECURSIVE Num(_, _, _)
Num(s, i, j) == IF j < i THEN 0 ELSE 10 * Num(s, i, j - 1) + DigitVal(s[j])

\* str(n) for an integer n >= 0
RECURSIVE IntChars(_)
IntChars(n) == IF n < 10 THEN <<Digits[n + 1]>>
               ELSE IntChars(n \div 10) \o <<Digits[(n % 10) + 1]>>

\* TRAIN_NUMBER_PATTERN = ^\d{1,5}$ and STATION_CODE_PATTERN = ^[A-Za-z]{3}$
TRAIN_NUMBER_PATTERN(s) == Len(s) \in 1..5 /\ \A i \in DOMAIN s : IsDigit(s[i])
STATION_CODE_PATTERN(s) == Len(s) = 3 /\ \A i \in DOMAIN s : IsLetter(s[i])

-----------------------------------------------------------------------------
(* JSON values and the Python operations the handler applies to them *)

JNull == [t |-> "null"]                 \* JSON null, Python None
JStr(s) == [t |-> "str", v |-> s]
JInt(n) == [t |-> "int", v |-> n]
JList(l) == [t |-> "list", v |-> l]
JDict(d) == [t |-> "dict", v |-> d]
EmptyDict == JDict(<<>>)

\* bool(v)
Truthy(v) ==
    CASE v.t = "null" -> FALSE
      [] v.t = "str"  -> Len(v.v) > 0
      [] v.t = "int"  -> v.v # 0
      [] v.t = "list" -> Len(v.v) > 0
      [] v.t = "dict" -> DOMAIN v.v # {}

\* d.get(k, default) on a dict d
DictGet(d, k, default) == IF k \in DOMAIN d.v THEN d.v[k] ELSE default

\* a == b on two JSON values
JEq(a, b) == a.t = b.t /\ a = b

\* a or b
PyOr(a, b) == IF Truthy(a) THEN a ELSE b

\* str(v); the inputs put strings, numbers and null in the fields that reach it
PyStr(v) ==
    CASE v.t = "str"  -> v.v
      [] v.t = "int"  -> IntChars(v.v)
      [] v.t = "null" -> <<"N","o","n","e">>

-----------------------------------------------------------------------------
(* datetime.fromisoformat, for YYYY-MM-DD?HH:MM:SS[Z|+HH:MM|-HH:MM] *)

DaysInMonth(y, m) ==
    IF m = 2 THEN (IF (y % 4 = 0 /\ y % 100 # 0) \/ y % 400 = 0 THEN 29 ELSE 28)
    ELSE IF m \in {4, 6, 9, 11} THEN 30 ELSE 31

\* days from 1970-01-01 to y-m-d in the proleptic Gregorian calendar
DaysFromCivil(y, m, d) ==
    LET yy  == IF m <= 2 THEN y - 1 ELSE y
        era == yy \div 400
        yoe == yy - era * 400
        mp  == (m + 9) % 12
        doy == (153 * mp + 2) \div 5 + d - 1
        doe == yoe * 365 + yoe \div 4 - yoe \div 100 + doy
    IN  era * 146097 + doe - 719468

AllDigits(s, i, j) == \A k \in i..j : IsDigit(s[k])

NotADate == [ok |-> FALSE, wall |-> 0, aware |-> FALSE, off |-> 0]

fromisoformat(s) ==
    LET n == Len(s)
        shape == /\ n \in {19, 20, 25}
                 /\ AllDigits(s, 1, 4) /\ s[5] = "-" /\ AllDigits(s, 6, 7)
                 /\ s[8] = "-" /\ AllDigits(s, 9, 10)
                 /\ AllDigits(s, 12, 13) /\ s[14] = ":" /\ AllDigits(s, 15, 16)
                 /\ s[17] = ":" /\ AllDigits(s, 18, 19)
                 /\ (n = 20 => s[20] = "Z")
                 /\ (n = 25 => /\ s[20] \in {"+", "-"}
                               /\ AllDigits(s, 21, 22) /\ s[23] = ":"
                               /\ AllDigits(s, 24, 25))
    IN  IF ~shape THEN NotADate
        ELSE
        LET y  == Num(s, 1, 4)
            mo == Num(s, 6, 7)
            d  == Num(s, 9, 10)
            h  == Num(s, 12, 13)
            mi == Num(s, 15, 16)
            se == Num(s, 18, 19)
            oh == IF n = 25 THEN Num(s, 21, 22) ELSE 0
            om == IF n = 25 THEN Num(s, 24, 25) ELSE 0
            sign == IF n = 25 /\ s[20] = "-" THEN -1 ELSE 1
            valid == /\ y >= 1 /\ mo \in 1..12 /\ d >= 1 /\ d <= DaysInMonth(y, mo)
                     /\ h < 24 /\ mi < 60 /\ se < 60 /\ oh < 24 /\ om < 60
        IN  IF ~valid THEN NotADate
            ELSE [ok    |-> TRUE,
                  wall  |-> DaysFromCivil(y, mo, d) * 86400 + h * 3600 + mi * 60 + se,
                  aware |-> n > 19,
                  off   |-> sign * (oh * 3600 + om * 60)]

-----------------------------------------------------------------------------
(* _to_datetime and _compute_delay_minutes (lines 31-51) *)

NoDatetime == [exc |-> "none", some |-> FALSE, wall |-> 0, off |-> 0]
Raised(e) == [exc |-> e, some |-> FALSE, wall |-> 0, off |-> 0]

\* the offset a naive datetime gets: replace(tzinfo=timezone.utc)
NaiveOffset(p) == 0

to_datetime(value) ==
    IF ~Truthy(value) THEN NoDatetime
    ELSE IF value.t # "str" THEN Raised("TypeError")
    ELSE LET parsed == fromisoformat(value.v)
         IN  IF ~parsed.ok THEN Raised("ValueError")
             ELSE [exc |-> "none", some |-> TRUE, wall |-> parsed.wall,
                   off |-> IF parsed.aware THEN parsed.off ELSE NaiveOffset(parsed)]

\* (a - b).total_seconds() for two aware datetimes
TotalSeconds(a, b) == (a.wall - a.off) - (b.wall - b.off)

\* variant: rounding toward zero
TruncMinutes(seconds) ==
    IF seconds >= 0 THEN seconds \div 60 ELSE -((-seconds) \div 60)
\* int(seconds // 60): Python's floor division
FloorMinutes(seconds) == seconds \div 60

compute_delay_minutes(station) ==
    LET dep_time     == to_datetime(DictGet(station, "dep", JNull))
        sch_dep_time == to_datetime(DictGet(station, "schDep", JNull))
        arr_time     == to_datetime(DictGet(station, "arr", JNull))
        sch_arr_time == to_datetime(DictGet(station, "schArr", JNull))
    IN  IF dep_time.exc # "none" THEN [exc |-> dep_time.exc, value |-> 0]
        ELSE IF sch_dep_time.exc # "none" THEN [exc |-> sch_dep_time.exc, value |-> 0]
        ELSE IF dep_time.some /\ sch_dep_time.some
             THEN [exc |-> "none",
                   value |-> FloorMinutes(TotalSeconds(dep_time, sch_dep_time))]
        ELSE IF arr_time.exc # "none" THEN [exc |-> arr_time.exc, value |-> 0]
        ELSE IF sch_arr_time.exc # "none" THEN [exc |-> sch_arr_time.exc, value |-> 0]
        ELSE IF arr_time.some /\ sch_arr_time.some
             THEN [exc |-> "none",
                   value |-> FloorMinutes(TotalSeconds(arr_time, sch_arr_time))]
        ELSE [exc |-> "none", value |-> 0]

-----------------------------------------------------------------------------
(* Module constants (lines 14-16) and the shape of what the endpoint answers *)

PRIMARY_BASE_URL == "https://api-v3.amtraker.com"
FALLBACK_BASE_URL == "https://amtrak-api.marcmap.app"
SOURCE_BASE_URLS == <<PRIMARY_BASE_URL, FALLBACK_BASE_URL>>

NoBody == [trainNumber |-> <<>>, origin |-> <<>>, destination |-> <<>>,
           currentStation |-> <<>>, queriedStation |-> <<>>,
           delayMinutes |-> 0, status |-> <<>>, asOf |-> <<>>]
NoResponse == [status |-> 0, exc |-> "none", detail |-> "", args |-> <<>>,
               body |-> NoBody]

\* raise HTTPException(status_code, detail), answered by FastAPI with that status
HTTPException(code, text, a) ==
    [status |-> code, exc |-> "HTTPException", detail |-> text, args |-> a,
     body |-> NoBody]
\* an exception no handler catches: the server answers 500 Internal Server Error
Unhandled(e) ==
    [status |-> 500, exc |-> e, detail |-> "Internal Server Error", args |-> <<>>,
     body |-> NoBody]
\* the path parameters fail Path(pattern=...): FastAPI answers 422
ValidationError ==
    [status |-> 422, exc |-> "RequestValidationError",
     detail |-> "String should match pattern", args |-> <<>>, body |-> NoBody]
Ok(b) == [status |-> 200, exc |-> "none", detail |-> "", args |-> <<>>, body |-> b]

\* datetime.now(timezone.utc).isoformat(): an instant no upstream value equals
Now == <<"n","o","w","(",")">>

-----------------------------------------------------------------------------
(* The two halves of get_train_station_info around its second await *)

\* station_code.upper() (line 109)
\* variant: the code as received
KeepCase(code) == code
normalize_station(code) == [i \in DOMAIN code |-> UpperChar(code[i])]

\* lines 120-127: the first string of train_ids whose first segment is train_number
\* variant: the train number as a prefix of the first segment
PrefixTrainIds(train_ids, number) ==
    {i \in DOMAIN train_ids :
        /\ train_ids[i].t = "str"
        /\ Len(FirstSegment(train_ids[i].v)) >= Len(number)
        /\ SubSeq(FirstSegment(train_ids[i].v), 1, Len(number)) = number}
MatchingTrainIds(train_ids, number) ==
    {i \in DOMAIN train_ids :
        train_ids[i].t = "str" /\ FirstSegment(train_ids[i].v) = number}

match_train_id(train_ids, number) ==
    LET m == MatchingTrainIds(train_ids, number)
    IN  IF m = {} THEN JNull
        ELSE train_ids[CHOOSE i \in m : \A j \in m : i <= j]

StationsPath(station) == "/v3/stations/" \o Text(station)
TrainsPath(train_id) == "/v3/trains/" \o Text(train_id)

\* lines 112-134: the outcome of the handler once the station listing is there:
\* either an HTTPException or the train identifier to fetch
ListingOutcome(payload, station, number) ==
    LET station_data == DictGet(payload, Text(station), JNull)
        train_ids == DictGet(station_data, "trains", JList(<<>>))
        matched == match_train_id(train_ids.v, number)
    IN  IF station_data.t # "dict"
        THEN [raise |-> TRUE, matched |-> JNull,
              resp |-> HTTPException(404, "Station not found", <<>>)]
        ELSE IF train_ids.t # "list"
        THEN [raise |-> TRUE, matched |-> JNull,
              resp |-> HTTPException(404, "Station has no active train data", <<>>)]
        ELSE IF matched.t = "null"
        THEN [raise |-> TRUE, matched |-> JNull,
              resp |-> HTTPException(404, "Train {} not found for station {}",
                                     <<number, station>>)]
        ELSE [raise |-> FALSE, matched |-> matched, resp |-> NoResponse]

\* _find_train_entry (lines 74-78)
\* variant: the last entry of the list
LastEntry(payload, number) ==
    LET entries == DictGet(payload, Text(number), JNull)
    IN  IF entries.t = "list" /\ Len(entries.v) > 0 THEN entries.v[Len(entries.v)]
        ELSE JNull
find_train_entry(payload, number) ==
    LET entries == DictGet(payload, Text(number), JNull)
    IN  IF entries.t = "list" /\ Len(entries.v) > 0 THEN entries.v[1] ELSE JNull

\* what "for station in stations" yields: the elements of a list, the characters
\* of a string, the keys of a dict; a number or None is not iterable
Iterable(v) == v.t \in {"list", "str", "dict"}
Keys(d) ==
    CHOOSE f \in [1..Cardinality(DOMAIN d) -> DOMAIN d] :
        \A i, j \in DOMAIN f : i # j => f[i] # f[j]
Items(v) ==
    CASE v.t = "list" -> v.v
      [] v.t = "str"  -> [i \in DOMAIN v.v |-> JStr(<<v.v[i]>>)]
      [] v.t = "dict" -> [i \in 1..Cardinality(DOMAIN v.v) |-> JStr(<<Keys(v.v)[i]>>)]

\* lines 143-150: the first dict of stations whose code is the station
find_station_entry(items, station) ==
    LET m == {i \in DOMAIN items :
                 /\ items[i].t = "dict"
                 /\ JEq(DictGet(items[i], "code", JNull), JStr(station))}
    IN  IF m = {} THEN JNull ELSE items[CHOOSE i \in m : \A j \in m : i <= j]

\* lines 157-159
as_of(train_entry) ==
    LET v == PyOr(DictGet(train_entry, "updatedAt", JNull),
                  DictGet(train_entry, "lastValTS", JNull))
    IN  IF v.t # "str" THEN Now ELSE v.v

\* lines 161-170
\* variant: no "Unknown" default
NoStatusDefault(station_entry) == PyStr(DictGet(station_entry, "status", JNull))
status_of(station_entry) ==
    PyStr(PyOr(DictGet(station_entry, "status", JNull),
               JStr(<<"U","n","k","n","o","w","n">>)))

build_response(train_entry, station_entry, station, number, delay) ==
    [trainNumber    |-> PyStr(PyOr(DictGet(train_entry, "trainNumRaw", JNull),
                                   JStr(number))),
     origin         |-> PyStr(PyOr(DictGet(train_entry, "origCode", JNull), JStr(<<>>))),
     destination    |-> PyStr(PyOr(DictGet(train_entry, "destCode", JNull), JStr(<<>>))),
     currentStation |-> station,
     queriedStation |-> station,
     delayMinutes   |-> delay,
     status         |-> status_of(station_entry),
     asOf           |-> as_of(train_entry)]

\* lines 135-170: what the handler answers once the train detail is there
DetailOutcome(payload, station, number) ==
    LET train_entry == find_train_entry(payload, number)
    IN  IF train_entry.t = "null"
        THEN HTTPException(404, "Train {} has no active detail feed", <<number>>)
        ELSE IF train_entry.t # "dict" THEN Unhandled("AttributeError")
        ELSE
        LET stations == DictGet(train_entry, "stations", JList(<<>>))
        IN  IF ~Iterable(stations) THEN Unhandled("TypeError")
            ELSE
            LET station_entry == find_station_entry(Items(stations), station)
            IN  IF station_entry.t = "null"
                THEN HTTPException(404,
                         "Station {} is not in active itinerary for train {}",
                         <<station, number>>)
                ELSE
                LET delay == compute_delay_minutes(station_entry)
                IN  IF delay.exc # "none" THEN Unhandled(delay.exc)
                    ELSE Ok(build_response(train_entry, station_entry, station,
                                           number, delay.value))

-----------------------------------------------------------------------------
(* The inputs: requests, and what the upstream hosts may answer *)

MaxIds == 2     \* longest train-identifier list of a station listing

WAS == <<"W","A","S">>
BOS == <<"B","O","S">>
T123 == <<"1","2","3">>
Id123x1 == <<"1","2","3","-","1">>
Id123x45 == <<"1","2","3","-","4","5">>

TrainNumbers ==
    {T123, <<"1","2","3","4">>, <<"0","2","3">>, <<"2","3">>,
     <<"1","2","a">>, <<"1","2","3","4","5","6">>, <<"1","2","-","3">>}
StationCodes ==
    {WAS, <<"w","a","s">>, BOS, <<"W","A">>, <<"W","4","S">>, <<"w","a","s","h">>}

Day == <<"2","0","2","4","-","0","1","-","0","1","T">>
At1000 == Day \o <<"1","0",":","0","0",":","0","0">>
At1005 == Day \o <<"1","0",":","0","5",":","0","0">>
At095959 == Day \o <<"0","9",":","5","9",":","5","9">>
At0500 == Day \o <<"0","5",":","0","0",":","0","0">>
At1107 == Day \o <<"1","1",":","0","7",":","3","0">>
Eve2359 == <<"2","0","2","3","-","1","2","-","3","1","T",
             "2","3",":","5","9",":","0","0">>
Zulu == <<"Z">>
Minus5 == <<"-","0","5",":","0","0">>
Plus1 == <<"+","0","1",":","0","0">>
NotIso == <<"n","/","a">>

Departed == JStr(<<"D","e","p","a","r","t","e","d">>)
Enroute == JStr(<<"E","n","r","o","u","t","e">>)

\* station-visit records of an itinerary
GoodVisit == JDict([code |-> JStr(WAS), status |-> Departed,
                    dep |-> JStr(At1005 \o Zulu), schDep |-> JStr(At1000 \o Zulu)])
Visits ==
    {GoodVisit,
     JDict([code |-> JStr(WAS), status |-> Enroute,
            arr |-> JStr(At095959 \o Zulu), schArr |-> JStr(At1000)]),
     JDict([code |-> JStr(WAS)]),
     JDict([code |-> JStr(WAS), status |-> JStr(<<>>), dep |-> JStr(At1005 \o Zulu),
            schDep |-> JNull, arr |-> JStr(At1107 \o Plus1),
            schArr |-> JStr(At0500 \o Minus5)]),
     JDict([code |-> JStr(WAS), status |-> JInt(7), dep |-> JStr(<<>>)]),
     JDict([code |-> JStr(WAS), status |-> JNull, dep |-> JStr(NotIso),
            schDep |-> JStr(At1000 \o Zulu)]),
     JDict([code |-> JStr(WAS), status |-> Departed, dep |-> JStr(At1005 \o Zulu),
            schDep |-> JInt(1704103200)]),
     JDict([code |-> JStr(WAS), status |-> Departed, dep |-> JStr(At1005 \o Zulu),
            arr |-> JStr(NotIso), schArr |-> JStr(At1000 \o Zulu)])}
OtherVisit == JDict([code |-> JStr(BOS), status |-> Enroute,
                     dep |-> JStr(At1000 \o Zulu), schDep |-> JStr(At1005 \o Zulu)])
LowerVisit == JDict([code |-> JStr(<<"w","a","s">>), status |-> Departed])
LaterVisit == JDict([code |-> JStr(WAS), status |-> Enroute])

\* values of a train entry's "stations"
Itineraries ==
    {JList(<<v>>) : v \in Visits}
    \cup {JList(<<OtherVisit, GoodVisit>>),
          JList(<<GoodVisit, LaterVisit>>), JList(<<LaterVisit, GoodVisit>>),
          JList(<<JStr(WAS), JNull, GoodVisit>>), JList(<<LowerVisit>>),
          JList(<<OtherVisit>>), JList(<<>>), JList(<<JInt(5)>>),
          JNull, JInt(3), JStr(WAS), JDict([WAS |-> GoodVisit])}

FullEntry(stations) ==
    JDict([trainNumRaw |-> JStr(<<"1","2","3","(","2",")">>), origCode |-> JStr(WAS),
           destCode |-> JStr(BOS), updatedAt |-> JStr(At1005 \o Minus5),
           lastValTS |-> JStr(At1000 \o Minus5), stations |-> stations])

\* first entries of a train detail list
Entries ==
    {FullEntry(s) : s \in Itineraries}
    \cup {JDict([origCode |-> JStr(WAS), destCode |-> JStr(BOS)]),
          JDict([stations |-> JList(<<JDict([code |-> JStr(WAS)])>>)]),
          JDict([trainNumRaw |-> JInt(0), origCode |-> JStr(<<>>), destCode |-> JNull,
                 updatedAt |-> JStr(<<>>), lastValTS |-> JStr(At1000 \o Minus5),
                 stations |-> JList(<<GoodVisit>>)]),
          JDict([trainNumRaw |-> JInt(123), origCode |-> JInt(7), destCode |-> JStr(BOS),
                 updatedAt |-> JInt(5), lastValTS |-> JStr(At1000 \o Minus5),
                 stations |-> JList(<<JDict([code |-> JStr(WAS)])>>)]),
          JDict([updatedAt |-> JNull, lastValTS |-> JStr(<<>>),
                 stations |-> JList(<<GoodVisit>>)]),
          JStr(WAS), JInt(1), JList(<<>>), JNull}

GoodEntry == FullEntry(JList(<<OtherVisit, GoodVisit>>))

DetailPayloads ==
    {JDict("123" :> JList(<<e>>)) : e \in Entries}
    \cup {JDict("123" :> JList(<<GoodEntry, FullEntry(JList(<<>>))>>)),
          JDict("123" :> JList(<<>>)),
          JDict("123" :> GoodEntry),
          JDict("123" :> JNull),
          EmptyDict,
          JDict("123-1" :> JList(<<GoodEntry>>)),
          JDict("123-45" :> JList(<<GoodEntry>>)),
          JDict("123-1" :> JList(<<GoodEntry>>) @@ "123" :> JList(<<>>)),
          JDict("1234" :> JList(<<GoodEntry>>)),
          JDict("023" :> JList(<<GoodEntry>>))}

\* elements of a station's "trains" list
IdElems == {JStr(Id123x45), JStr(<<"1","2","3","4","-","1">>), JInt(123)}
IdLists ==
    UNION {[1..k -> IdElems] : k \in 0..MaxIds}
    \cup {<<JStr(<<"1","2","3","4","-","1">>), JStr(Id123x1), JStr(Id123x45)>>,
          <<JStr(T123)>>, <<JStr(<<"1","2","3","-","4","-","5">>)>>,
          <<JStr(<<"0","2","3","-","1">>)>>,
          <<JStr(<<"-","1","2","3">>), JStr(<<"2","3","-","0">>)>>}

GoodTrains == JList(<<JStr(Id123x1)>>)

ListingPayloads ==
    {JDict("WAS" :> JDict([trains |-> JList(l)])) : l \in IdLists}
    \cup {JDict("WAS" :> x) : x \in {JNull, GoodTrains, JStr(Id123x1)}}
    \cup {JDict("WAS" :> JDict([trains |-> x])) :
              x \in {JNull, JStr(Id123x1), JDict([ids |-> GoodTrains])}}
    \cup {EmptyDict,
          JDict("WAS" :> EmptyDict),
          JDict("WAS" :> JDict([name |-> JStr(WAS)])),
          JDict("was" :> JDict([trains |-> GoodTrains])),
          JDict("BOS" :> JDict([trains |-> GoodTrains])),
          JDict("BOS" :> JDict([trains |-> GoodTrains]) @@ "WAS" :> JNull)}

\* what one GET may come back with: a transport failure, or a status and a body
NotJson == [t |-> "notjson"]
Http(status, body) == [transport |-> "ok", status |-> status, body |-> body]
Failures(good) ==
    {[transport |-> "Timeout", status |-> 0, body |-> NotJson],
     [transport |-> "ConnectionError", status |-> 0, body |-> NotJson],
     Http(500, good), Http(404, EmptyDict), Http(200, NotJson),
     Http(200, JList(<<good>>)), Http(200, JNull)}
Upstream(no) ==
    IF no = 1
    THEN Failures(JDict("WAS" :> JDict([trains |-> GoodTrains])))
         \cup {Http(200, b) : b \in ListingPayloads}
    ELSE Failures(JDict("123" :> JList(<<GoodEntry>>)))
         \cup {Http(200, b) : b \in DetailPayloads}

\* a response that is a successful JSON object
JsonObject(resp) ==
    resp.transport = "ok" /\ resp.status \in 200..299 /\ resp.body.t = "dict"

\* two station codes that differ at most in the case of their letters
SameButCase(a, b) ==
    /\ Len(a) = Len(b)
    /\ \A i \in DOMAIN a :
          \/ a[i] = b[i]
          \/ \E k \in DOMAIN LowerLetters :
                {a[i], b[i]} = {LowerLetters[k], UpperLetters[k]}

-----------------------------------------------------------------------------
(* The request, step by step *)

Idle == [no |-> 0, path |-> "", idx |-> 0, last_error |-> "none"]
NoFirst == [station_code |-> <<>>, gets |-> <<>>, response |-> NoResponse]
NoDelay == [exc |-> "pending", value |-> 0]

Init ==
    /\ pc = "request"
    /\ train_number \in TrainNumbers
    /\ station_code \in StationCodes
    /\ normalized_station = <<>>
    /\ fetch = Idle
    /\ gets = <<>>
    /\ station_payload = JNull
    /\ matched_train_id = JNull
    /\ train_payload = JNull
    /\ response = NoResponse
    /\ round = 1
    /\ first = NoFirst
    /\ delay_arg = EmptyDict
    /\ delay_result = NoDelay

\* Path(pattern=...) of lines 94-107: FastAPI rejects the request before the
\* handler runs
\* variant: the station code goes unvalidated
NumberOnly(number, code) == TRAIN_NUMBER_PATTERN(number)
ValidPath(number, code) == TRAIN_NUMBER_PATTERN(number) /\ STATION_CODE_PATTERN(code)

Reject ==
    /\ pc = "request"
    /\ ~ValidPath(train_number, station_code)
    /\ response' = ValidationError
    /\ pc' = "done"
    /\ UNCHANGED <<train_number, station_code, normalized_station, fetch, gets,
                   station_payload, matched_train_id, train_payload, round, first,
                   delay_arg, delay_result>>

\* lines 109-111: normalise and start the station listing fetch
Start ==
    /\ pc = "request"
    /\ ValidPath(train_number, station_code)
    /\ normalized_station' = normalize_station(station_code)
    /\ fetch' = [no |-> 1, path |-> StationsPath(normalized_station'), idx |-> 1,
                 last_error |-> "none"]
    /\ pc' = "fetch"
    /\ UNCHANGED <<train_number, station_code, gets, station_payload,
                   matched_train_id, train_payload, response, round, first,
                   delay_arg, delay_result>>

\* lines 59-66: what the try block makes of a response: "none" when it returns it
\* variant: no raise_for_status()
SkipStatus(resp) ==
    IF resp.transport # "ok" THEN resp.transport
    ELSE IF resp.body.t = "notjson" THEN "JSONDecodeError"
    ELSE IF resp.body.t # "dict" THEN "Unexpected upstream payload shape"
    ELSE "none"
FetchError(resp) ==
    IF resp.transport # "ok" THEN resp.transport
    ELSE IF resp.status >= 400 THEN "HTTPError"
    ELSE IF resp.body.t = "notjson" THEN "JSONDecodeError"
    ELSE IF resp.body.t # "dict" THEN "Unexpected upstream payload shape"
    ELSE "none"

\* in a replay the hosts answer a URL as they answered it in round 1
AsBefore(base, path, resp) ==
    \A i \in DOMAIN first.gets :
        (first.gets[i].base = base /\ first.gets[i].path = path)
        => /\ JsonObject(resp) = first.gets[i].object
           /\ JsonObject(resp) => resp.body = first.gets[i].body

\* one turn of the loop of _fetch_json (lines 56-66): a GET to the next base URL
HostGet ==
    /\ pc = "fetch"
    /\ fetch.idx <= Len(SOURCE_BASE_URLS)
    /\ \E resp \in Upstream(fetch.no) :
          LET base == SOURCE_BASE_URLS[fetch.idx]
              err == FetchError(resp)
          IN  /\ AsBefore(base, fetch.path, resp)
              /\ gets' = Append(gets, [call |-> fetch.no, base |-> base,
                                       path |-> fetch.path,
                                       object |-> JsonObject(resp),
                                       body |-> IF JsonObject(resp) THEN resp.body
                                                ELSE JNull])
              /\ IF err = "none"
                 THEN /\ pc' = IF fetch.no = 1 THEN "listing" ELSE "detail"
                      /\ station_payload' =
                             IF fetch.no = 1 THEN resp.body ELSE station_payload
                      /\ train_payload' =
                             IF fetch.no = 2 THEN resp.body ELSE train_payload
                      /\ fetch' = Idle
                 ELSE /\ fetch' = [fetch EXCEPT !.idx = @ + 1, !.last_error = err]
                      /\ UNCHANGED <<pc, station_payload, train_payload>>
    /\ UNCHANGED <<train_number, station_code, normalized_station,
                   matched_train_id, response, round, first,
                   delay_arg, delay_result>>

\* variant: an empty payload instead of the 502
SwallowFailure ==
    /\ pc = "fetch"
    /\ fetch.idx > Len(SOURCE_BASE_URLS)
    /\ pc' = IF fetch.no = 1 THEN "listing" ELSE "detail"
    /\ station_payload' = IF fetch.no = 1 THEN EmptyDict ELSE station_payload
    /\ train_payload' = IF fetch.no = 2 THEN EmptyDict ELSE train_payload
    /\ fetch' = Idle
    /\ UNCHANGED <<train_number, station_code, normalized_station, gets,
                   matched_train_id, response, round, first, delay_arg, delay_result>>

\* lines 68-71: every base URL failed
Unavailable ==
    /\ pc = "fetch"
    /\ fetch.idx > Len(SOURCE_BASE_URLS)
    /\ response' = HTTPException(502,
                       "Upstream train status providers are unavailable", <<>>)
    /\ pc' = "done"
    /\ fetch' = Idle
    /\ UNCHANGED <<train_number, station_code, normalized_station, gets,
                   station_payload, matched_train_id, train_payload, round, first,
                   delay_arg, delay_result>>

\* lines 112-134: from the station listing to the train detail fetch
Listing ==
    /\ pc = "listing"
    /\ LET out == ListingOutcome(station_payload, normalized_station, train_number)
       IN  IF out.raise
           THEN /\ response' = out.resp
                /\ pc' = "done"
                /\ UNCHANGED <<matched_train_id, fetch>>
           ELSE /\ matched_train_id' = out.matched
                /\ fetch' = [no |-> 2, path |-> TrainsPath(out.matched.v), idx |-> 1,
                             last_error |-> "none"]
                /\ pc' = "fetch"
                /\ UNCHANGED response
    /\ UNCHANGED <<train_number, station_code, normalized_station, gets,
                   station_payload, train_payload, round, first,
                   delay_arg, delay_result>>

\* lines 135-170: from the train detail to the response
Detail ==
    /\ pc = "detail"
    /\ response' = DetailOutcome(train_payload, normalized_station, train_number)
    /\ pc' = "done"
    /\ UNCHANGED <<train_number, station_code, normalized_station, fetch, gets,
                   station_payload, matched_train_id, train_payload, round, first,
                   delay_arg, delay_result>>

\* the same train at the same station, asked again in another letter case
Replay ==
    /\ pc = "done"
    /\ round = 1
    /\ \E code \in StationCodes :
          /\ code # station_code
          /\ SameButCase(code, station_code)
          /\ station_code' = code
    /\ first' = [station_code |-> station_code, gets |-> gets, response |-> response]
    /\ round' = 2
    /\ pc' = "request"
    /\ normalized_station' = <<>>
    /\ fetch' = Idle
    /\ gets' = <<>>
    /\ station_payload' = JNull
    /\ matched_train_id' = JNull
    /\ train_payload' = JNull
    /\ response' = NoResponse
    /\ UNCHANGED <<train_number, delay_arg, delay_result>>

Next == Reject \/ Start \/ HostGet \/ Unavailable \/ Listing \/ Detail

Spec == Init /\ [][Next]_vars

NextCase == Next \/ Replay

SpecCase == Init /\ [][NextCase]_vars

-----------------------------------------------------------------------------
(* _compute_delay_minutes on its own: every combination of absent, null,    *)
(* empty and well-formed timestamps                                         *)

\* the timestamps of the delay inputs, each with the instant it denotes, in
\* seconds after 2024-01-01T10:00:00Z
KnownIso ==
    {[s |-> At1000 \o Zulu, utc |-> 0],
     [s |-> At1005 \o Zulu, utc |-> 300],
     [s |-> At095959 \o Zulu, utc |-> -1],
     [s |-> At1000, utc |-> 0],
     [s |-> At0500 \o Minus5, utc |-> 0],
     [s |-> At1107 \o Plus1, utc |-> 450],
     [s |-> At1005 \o Minus5, utc |-> 18300],
     [s |-> At1000 \o Minus5, utc |-> 18000],
     [s |-> Eve2359, utc |-> -36060]}

DelayTimestamps ==
    {JNull, JStr(<<>>)}
    \cup {JStr(k.s) : k \in {x \in KnownIso : x.utc \in {0, 300, -1, 450, -36060}}}
TimestampKeys == {"dep", "schDep", "arr", "schArr"}
DelayVisits ==
    {JDict(d) : d \in UNION {[K -> DelayTimestamps] : K \in SUBSET TimestampKeys}}

InitDelay ==
    /\ pc = "call"
    /\ delay_arg \in DelayVisits
    /\ delay_result = NoDelay
    /\ train_number = <<>>
    /\ station_code = <<>>
    /\ normalized_station = <<>>
    /\ fetch = Idle
    /\ gets = <<>>
    /\ station_payload = JNull
    /\ matched_train_id = JNull
    /\ train_payload = JNull
    /\ response = NoResponse
    /\ round = 1
    /\ first = NoFirst

ComputeDelay ==
    /\ pc \in {"call", "returned"}
    /\ delay_result' = compute_delay_minutes(delay_arg)
    /\ pc' = "returned"
    /\ UNCHANGED <<train_number, station_code, normalized_station, fetch, gets,
                   station_payload, matched_train_id, train_payload, response,
                   round, first, delay_arg>>

SpecDelay == InitDelay /\ [][ComputeDelay]_vars

-----------------------------------------------------------------------------
(* Vocabulary of the properties, stated without the handler's operators *)

\* the GETs of the first (1) or the second (2) _fetch_json call, in order
CallGets(c) == SelectSeq(gets, LAMBDA g : g.call = c)
Fetched(c) == IF c = 1 THEN station_payload ELSE train_payload

WellFormedNumber(s) ==
    Len(s) \in 1..5 /\ \A i \in DOMAIN s : s[i] \in {"0","1","2","3","4","5","6","7","8","9"}
WellFormedCode(s) ==
    Len(s) = 3 /\ \A i \in DOMAIN s : \E k \in 1..26 : s[i] \in {LowerLetters[k], UpperLetters[k]}
WellFormedRequest == WellFormedNumber(train_number) /\ WellFormedCode(station_code)

\* u is code written in upper case
IsUpperOf(u, code) ==
    SameButCase(u, code) /\ \A i \in DOMAIN u : u[i] \notin Range(LowerLetters)

\* the part of id before its first "-" is the string number
SegmentIs(id, number) ==
    LET k == Len(number)
    IN  /\ Len(id) >= k
        /\ \A j \in 1..k : id[j] = number[j] /\ id[j] # "-"
        /\ (Len(id) = k \/ id[k + 1] = "-")
Matches(elem, number) == elem.t = "str" /\ SegmentIs(elem.v, number)

Has(d, k) == d.t = "dict" /\ k \in DOMAIN d.v
StationKey == Text(normalized_station)
HasStationObject == Has(station_payload, StationKey) /\ station_payload.v[StationKey].t = "dict"
StationObject == station_payload.v[StationKey]
HasTrainList == HasStationObject /\ Has(StationObject, "trains") /\ StationObject.v["trains"].t = "list"
TrainList == StationObject.v["trains"].v

\* the entry list of the train detail payload under key k, and its first entry
HasEntries(k) ==
    Has(train_payload, k) /\ train_payload.v[k].t = "list" /\ Len(train_payload.v[k].v) > 0
FirstEntry(k) == train_payload.v[k].v[1]
IsVisitAt(x, code) == Has(x, "code") /\ x.v["code"].t = "str" /\ x.v["code"].v = code
HasVisit(entry, code) ==
    /\ Has(entry, "stations") /\ entry.v["stations"].t = "list"
    /\ \E i \in DOMAIN entry.v["stations"].v : IsVisitAt(entry.v["stations"].v[i], code)
FirstVisit(entry, code) ==
    LET l == entry.v["stations"].v
    IN  l[CHOOSE i \in DOMAIN l :
              IsVisitAt(l[i], code) /\ \A j \in 1..(i - 1) : ~IsVisitAt(l[j], code)]

Field(d, k) == IF k \in DOMAIN d.v THEN d.v[k] ELSE JNull
\* an upstream value that is there: a non-empty string or a non-zero number
Supplied(v) == (v.t = "str" /\ v.v # <<>>) \/ (v.t = "int" /\ v.v # 0)
AsText(v) == IF v.t = "str" THEN v.v ELSE IntChars(v.v)

\* a timestamp that is there, and the instant it denotes
Present(v) == v.t = "str" /\ v.v # <<>>
Absent(v) == v.t = "null" \/ (v.t = "str" /\ v.v = <<>>)
Known(v) == Present(v) /\ \E k \in KnownIso : k.s = v.v
Instant(v) == (CHOOSE k \in KnownIso : k.s = v.v).utc
\* floor(seconds / 60)
FloorOf(seconds) == CHOOSE m \in -700..700 : 60 * m <= seconds /\ seconds < 60 * m + 60
ExpectedDelay(visit) ==
    LET dep == Field(visit, "dep")       schDep == Field(visit, "schDep")
        arr == Field(visit, "arr")       schArr == Field(visit, "schArr")
    IN  IF Present(dep) /\ Present(schDep) THEN FloorOf(Instant(dep) - Instant(schDep))
        ELSE IF Present(arr) /\ Present(schArr) THEN FloorOf(Instant(arr) - Instant(schArr))
        ELSE 0
\* a timestamp the delay computation reads is there and is no ISO-8601 string
Unreadable(v) == ~Absent(v) /\ ~Known(v)
DelayFaults(visit) ==
    LET dep == Field(visit, "dep")       schDep == Field(visit, "schDep")
        arr == Field(visit, "arr")       schArr == Field(visit, "schArr")
    IN  \/ Unreadable(dep) \/ Unreadable(schDep)
        \/ /\ ~(Present(dep) /\ Present(schDep))
           /\ (Unreadable(arr) \/ Unreadable(schArr))

NotFound(text) == response.status = 404 /\ response.detail = text
Complete(b) ==
    /\ b.currentStation # <<>> /\ b.queriedStation # <<>> /\ b.trainNumber # <<>>

-----------------------------------------------------------------------------
(* C1 *)

\* C1: a request with a well-formed train number and station code ends, whatever
\* the two upstream answers are, in 200 with a complete response, in a 404 with
\* one of the five documented messages, or in 502: never in an unhandled exception.
C1_NoUnhandledFault ==
    (pc = "done" /\ WellFormedRequest) =>
        \/ response.status = 200 /\ response.exc = "none" /\ Complete(response.body)
        \/ /\ response.status = 404 /\ response.exc = "HTTPException"
           /\ response.detail \in
                  {"Station not found", "Station has no active train data",
                   "Train {} not found for station {}",
                   "Train {} has no active detail feed",
                   "Station {} is not in active itinerary for train {}"}
        \/ response.status = 502 /\ response.exc = "HTTPException"

-----------------------------------------------------------------------------
(* C2 *)

\* C2: each _fetch_json call contacts the primary host first and the fallback
\* host second, each at most once and with the same path; the fallback is
\* contacted only after the primary has failed to give a JSON object; the first
\* successful JSON object ends the call and is the payload it returns, so a
\* failed primary followed by a good fallback returns the fallback's payload.
C2_Failover ==
    \A c \in {1, 2} :
        LET q == CallGets(c)
        IN  /\ Len(q) <= 2
            /\ Len(q) >= 1 => q[1].base = "https://api-v3.amtraker.com"
            /\ Len(q) = 2 => /\ q[2].base = "https://amtrak-api.marcmap.app"
                             /\ ~q[1].object
                             /\ q[2].path = q[1].path
            /\ \A i \in DOMAIN q :
                   q[i].object => i = Len(q) /\ Fetched(c) = q[i].body
            /\ Fetched(c).t # "null" => Len(q) >= 1 /\ q[Len(q)].object

\* the primary failed, the fallback answered a JSON object, and the call
\* returned that object
C2_Witness ==
    /\ pc = "detail"
    /\ Len(CallGets(2)) = 2
    /\ ~CallGets(2)[1].object /\ CallGets(2)[2].object
    /\ train_payload = CallGets(2)[2].body
    /\ Len(CallGets(1)) = 1

-----------------------------------------------------------------------------
(* C3 *)

BothFailed(c) == Len(CallGets(c)) = 2 /\ ~CallGets(c)[1].object /\ ~CallGets(c)[2].object

\* C3: once both hosts have failed for a fetch, the request can only end, and it
\* ends in 502 without a body; after a total failure of the station listing
\* fetch no train identifier is matched and no train detail GET is issued.
C3_TotalFailure ==
    \A c \in {1, 2} :
        BothFailed(c) =>
            /\ pc \in {"fetch", "done"}
            /\ pc = "fetch" => fetch.no = c /\ fetch.idx = 3
            /\ pc = "done" => /\ response.status = 502
                              /\ response.exc = "HTTPException"
                              /\ response.body = NoBody
            /\ Fetched(c).t = "null"
            /\ c = 1 => CallGets(2) = <<>> /\ matched_train_id.t = "null"

\* the train detail fetch failed on both hosts and the request ended in 502
C3_Witness ==
    pc = "done" /\ BothFailed(2) /\ response.status = 502 /\ ~BothFailed(1)

-----------------------------------------------------------------------------
(* C4 *)

\* the case of C4 with the entry list under key k of the train detail payload
C4_Case(k) ==
    /\ pc = "done"
    /\ matched_train_id.t = "str" /\ Matches(matched_train_id, train_number)
    /\ HasEntries(k)
    /\ FirstEntry(k).t = "dict"
    /\ HasVisit(FirstEntry(k), normalized_station)

C4_Answer(k) ==
    LET entry == FirstEntry(k)
        visit == FirstVisit(entry, normalized_station)
    IN  /\ response.status = 200
        /\ Supplied(Field(entry, "origCode"))
               => response.body.origin = AsText(Field(entry, "origCode"))
        /\ Supplied(Field(entry, "destCode"))
               => response.body.destination = AsText(Field(entry, "destCode"))
        /\ Supplied(Field(visit, "status"))
               => response.body.status = AsText(Field(visit, "status"))
        /\ response.body.delayMinutes = ExpectedDelay(visit)
        /\ (/\ Field(visit, "dep") = JStr(At1005 \o Zulu)
            /\ Field(visit, "schDep") = JStr(At1000 \o Zulu))
               => response.body.delayMinutes = 5

-----------------------------------------------------------------------------
(* C5 *)

C5_NoStation == ~HasStationObject
C5_NoTrainList == HasStationObject /\ ~HasTrainList
C5_NoTrain ==
    HasTrainList /\ \A i \in DOMAIN TrainList : ~Matches(TrainList[i], train_number)
C5_NoFeed == train_payload.t = "dict" /\ ~HasEntries(Text(train_number))
C5_NoVisit ==
    /\ train_payload.t = "dict" /\ HasEntries(Text(train_number))
    /\ FirstEntry(Text(train_number)).t = "dict"
    /\ Has(FirstEntry(Text(train_number)), "stations")
           => FirstEntry(Text(train_number)).v["stations"].t = "list"
    /\ ~HasVisit(FirstEntry(Text(train_number)), normalized_station)

\* C5: the five not-found conditions are checked in order and the first that
\* holds gives the 404 message: no station object; no train-identifier list
\* (missing, or not a list); no matching identifier; no non-empty entry list;
\* no visit at the station.
C5_NotFoundOrder ==
    (pc = "done" /\ station_payload.t = "dict") =>
        /\ C5_NoStation => NotFound("Station not found")
        /\ C5_NoTrainList => NotFound("Station has no active train data")
        /\ C5_NoTrain => NotFound("Train {} not found for station {}")
        /\ C5_NoFeed => NotFound("Train {} has no active detail feed")
        /\ C5_NoVisit =>
               NotFound("Station {} is not in active itinerary for train {}")

-----------------------------------------------------------------------------
(* C6 *)

\* C6: the matched identifier is the first element of the station's train list
\* that is a string whose part before its first "-" equals the requested train
\* number; every train detail GET is for that identifier; with a list and no
\* matching element the request ends in the 404 for a train not found, without a
\* train detail GET.
C6_FirstMatch ==
    /\ matched_train_id.t = "str" =>
           /\ HasTrainList
           /\ \E i \in DOMAIN TrainList :
                  /\ TrainList[i].t = "str" /\ TrainList[i].v = matched_train_id.v
                  /\ Matches(TrainList[i], train_number)
                  /\ \A j \in 1..(i - 1) : ~Matches(TrainList[j], train_number)
    /\ \A i \in DOMAIN CallGets(2) :
           /\ matched_train_id.t = "str"
           /\ CallGets(2)[i].path = "/v3/trains/" \o Text(matched_train_id.v)
    /\ (pc \in {"detail", "done"} /\ HasTrainList
            /\ \E i \in DOMAIN TrainList : Matches(TrainList[i], train_number))
           => matched_train_id.t = "str"
    /\ (pc = "done" /\ C5_NoTrain) =>
           /\ NotFound("Train {} not found for station {}")
           /\ response.args = <<train_number, normalized_station>>
           /\ CallGets(2) = <<>>
    /\ match_train_id(<<JStr(Id123x45)>>, T123) = JStr(Id123x45)
    /\ match_train_id(<<JStr(Id123x45)>>, <<"1","2","3","4">>).t = "null"
    /\ match_train_id(<<JStr(Id123x45)>>, <<"0","2","3">>).t = "null"

\* a list with a non-matching identifier, then two matching ones: the first
\* matching one is fetched
C6_Witness ==
    /\ HasTrainList /\ Len(TrainList) = 3
    /\ ~Matches(TrainList[1], train_number)
    /\ Matches(TrainList[2], train_number) /\ Matches(TrainList[3], train_number)
    /\ Len(CallGets(2)) >= 1
    /\ matched_train_id = TrainList[2]

-----------------------------------------------------------------------------
(* C7 *)

\* C7: the delay is floor((dep - schDep) / 60 s) when both departure timestamps
\* are present, else floor((arr - schArr) / 60 s) when both arrival timestamps
\* are present, else 0; missing, null and empty timestamps are absent; a
\* timestamp without offset is UTC; actual before scheduled gives a negative
\* delay.
C7_Delay ==
    delay_result.exc # "pending" =>
        /\ delay_result.exc = "none"
        /\ delay_result.value = ExpectedDelay(delay_arg)
        /\ LET dep == Field(delay_arg, "dep")    schDep == Field(delay_arg, "schDep")
               arr == Field(delay_arg, "arr")    schArr == Field(delay_arg, "schArr")
           IN  /\ (Present(dep) /\ Present(schDep) /\ Instant(dep) < Instant(schDep))
                      => delay_result.value < 0
               /\ (~(Present(dep) /\ Present(schDep)) /\ Present(arr) /\ Present(schArr)
                      /\ Instant(arr) < Instant(schArr)) => delay_result.value < 0

\* only the actual departure is present, and the arrival, one second early and
\* scheduled without offset, gives -1
C7_Witness ==
    /\ pc = "returned"
    /\ Present(Field(delay_arg, "dep")) /\ ~Has(delay_arg, "schDep")
    /\ Field(delay_arg, "arr") = JStr(At095959 \o Zulu)
    /\ Field(delay_arg, "schArr") = JStr(At1000)
    /\ delay_result.value = -1

-----------------------------------------------------------------------------
(* C8 *)

\* C8: a request whose train number or station code is malformed is answered
\* with a client error by the parameter validation, and no upstream GET is
\* issued for it.
C8_RejectMalformed ==
    ~WellFormedRequest =>
        /\ gets = <<>>
        /\ pc \in {"request", "done"}
        /\ pc = "done" => /\ response.status \in 400..499
                          /\ response.exc = "RequestValidationError"

\* a 5-digit-or-less train number with a station code that holds a digit
C8_Witness ==
    /\ pc = "done"
    /\ WellFormedNumber(train_number) /\ ~WellFormedCode(station_code)
    /\ Len(station_code) = 3
    /\ response.status = 422

-----------------------------------------------------------------------------
(* C9 *)

\* C9: the request asked again with the station code in another letter case,
\* against hosts that answer each URL as before, issues the same GETs and ends
\* in the same response; the station is used in upper case in the listing path,
\* in the listing key and in the response (currentStation = queriedStation).
C9_CaseInsensitive ==
    /\ (round = 2 /\ pc = "done") =>
           /\ response = first.response
           /\ gets = first.gets
    /\ (pc # "request" /\ WellFormedRequest) =>
           /\ IsUpperOf(normalized_station, station_code)
           /\ \A i \in DOMAIN CallGets(1) :
                  CallGets(1)[i].path = "/v3/stations/" \o Text(normalized_station)
    /\ response.status = 200 =>
           /\ IsUpperOf(response.body.currentStation, station_code)
           /\ response.body.queriedStation = response.body.currentStation
           /\ HasStationObject

\* WAS answered 200, then was answered
C9_Witness ==
    /\ round = 2 /\ pc = "done"
    /\ first.station_code = WAS /\ station_code = <<"w","a","s">>
    /\ first.response.status = 200 /\ response.status = 200
    /\ Len(gets) = 4

-----------------------------------------------------------------------------
(* C10 *)

C10_Entry == FirstEntry(Text(train_number))
C10_Visit == FirstVisit(C10_Entry, normalized_station)

\* C10 as stated: in a 200 response trainNumber, origin, destination and status
\* are upstream values, never defaults.
C10_NoOtherDefaults ==
    response.status = 200 =>
        /\ Supplied(Field(C10_Entry, "trainNumRaw"))
        /\ response.body.trainNumber = AsText(Field(C10_Entry, "trainNumRaw"))
        /\ Supplied(Field(C10_Entry, "origCode"))
        /\ response.body.origin = AsText(Field(C10_Entry, "origCode"))
        /\ Supplied(Field(C10_Entry, "destCode"))
        /\ response.body.destination = AsText(Field(C10_Entry, "destCode"))
        /\ Supplied(Field(C10_Visit, "status"))
        /\ response.body.status = AsText(Field(C10_Visit, "status"))

OrDefault(v, default) == IF Supplied(v) THEN AsText(v) ELSE default

\* C10 as amended: in a 200 response every field but the two station fields may
\* hold a default: asOf the current instant unless the first of updatedAt and
\* lastValTS that is there (else lastValTS) is a string; delayMinutes 0 without
\* a complete timestamp pair; and, when the upstream value is missing, null,
\* empty or 0, trainNumber the requested number, origin and destination the
\* empty string, status "Unknown".
C10_Defaults ==
    response.status = 200 =>
        /\ response.body.trainNumber =
               OrDefault(Field(C10_Entry, "trainNumRaw"), train_number)
        /\ response.body.origin = OrDefault(Field(C10_Entry, "origCode"), <<>>)
        /\ response.body.destination = OrDefault(Field(C10_Entry, "destCode"), <<>>)
        /\ response.body.status =
               OrDefault(Field(C10_Visit, "status"), <<"U","n","k","n","o","w","n">>)
        /\ LET a == IF Supplied(Field(C10_Entry, "updatedAt"))
                    THEN Field(C10_Entry, "updatedAt")
                    ELSE Field(C10_Entry, "lastValTS")
           IN  response.body.asOf = IF a.t = "str" THEN a.v ELSE Now
        /\ (~(Present(Field(C10_Visit, "dep")) /\ Present(Field(C10_Visit, "schDep")))
            /\ ~(Present(Field(C10_Visit, "arr")) /\ Present(Field(C10_Visit, "schArr"))))
               => response.body.delayMinutes = 0

\* a 200 response built from an entry and a visit that carry only the itinerary
\* and the station code
C10_Witness ==
    /\ response.status = 200
    /\ DOMAIN C10_Entry.v = {"stations"}
    /\ DOMAIN C10_Visit.v = {"code"}
    /\ response.body.trainNumber = train_number
    /\ response.body.origin = <<>>
    /\ response.body.status = <<"U","n","k","n","o","w","n">>
    /\ response.body.asOf = Now
    /\ response.body.delayMinutes = 0

====
